---- MODULE Spec2Model ----
(***************************************************************************)
(* Model of app.py: the Dash candlestick dashboard for BTC/USDT.           *)
(*                                                                         *)
(* One refresh is one call of the callback update_chart, which calls       *)
(* fetch_data (one HTTP GET against the klines endpoint, the reshaping of  *)
(* the JSON payload into a frame, the indicator columns) and then builds   *)
(* the figure.  A call takes two steps: it sends its GET and waits, and    *)
(* when the exchange answers it runs to its end; other calls may start and *)
(* return in between.  The browser holds the dropdown value, the checklist *)
(* value and the timer counter; the server holds nothing between calls.    *)
(*                                                                         *)
(* Numbers: prices are whole numbers.  The derived columns are computed    *)
(* in float64 arithmetic, operation by operation as pandas and ta perform  *)
(* it; a cell shows its double cut to a whole number of units, Scale units *)
(* per 1.0, and whether the double lies above that.                        *)
(***************************************************************************)
EXTENDS Integers, Sequences, FiniteSets, Bags, TLC

VARIABLES
    selected_interval,  \* value of the dropdown 'interval-dropdown'
    toggle_options,     \* value of the checklist 'toggle-options'
    n_intervals,        \* counter of the dcc.Interval timer
    calls,              \* the calls of update_chart waiting for the exchange
    call,               \* the call of update_chart that returned last
    upstream,           \* what the exchange answered to that call's GET
    requests,           \* the HTTP GETs that call issued, in order
    df,                 \* the frame fetch_data returned to it
    result,             \* what it handed back to the host
    history             \* earlier finished refreshes (session specification)

vars == <<selected_interval, toggle_options, n_intervals, calls, call,
          upstream, requests, df, result, history>>

(***************************************************************************)
(* Program constants (the accented letters of the program's strings are   *)
(* written without their accents)                                          *)
(***************************************************************************)
INTERVAL_OPTIONS == <<"1m", "3m", "5m", "10m", "15m", "30m", "1h", "4h", "1d">>
DEFAULT_INTERVAL == "5m"
API_URL == "https://api.binance.com/api/v3/klines"
SYMBOL == "BTCUSDT"
RequestLimit == 100
KlineColumns == <<"time", "open", "high", "low", "close", "volume",
                  "close_time", "quote_asset_volume", "num_trades",
                  "taker_buy_base_asset_volume",
                  "taker_buy_quote_asset_volume", "ignore">>
KeptColumns == <<"time", "open", "high", "low", "close">>
IndicatorColumns == <<"sma_20", "ema_20", "rsi", "macd", "cci", "adx",
                      "bollinger_high", "bollinger_low", "compra", "venda",
                      "previsao">>
SmaWindow == 20
EmaSpan == 20
RsiWindow == 14
AdxWindow == 14
RsiBuyBelow == 30
RsiSellAbove == 70
ToggleValues == {"candlestick", "indicators", "signals", "prediction"}
DefaultToggleValues == {"candlestick", "indicators", "signals", "prediction"}
ErrorTitle == "Erro ao carregar dados"
ErrorMessage == "Erro ao carregar dados. Tente outro intervalo."
ChartTitle == "Grafico de Velas BTC/USDT - Indicadores Tecnicos"

\* float64 (line 59, astype(float)): the binary digits of a mantissa, and
\* how many of them one limb of the model's naturals holds
Precision == 53
LimbBits == 15

(***************************************************************************)
(* Bounds of the model                                                     *)
(***************************************************************************)
MaxTicks == 1       \* timer ticks counted before the counter is capped
MaxChoices == 1     \* how many of the dropdown's options the user picks from
Excess == 1         \* rows the upstream may send beyond the requested limit
Scale == 1000       \* fixed-point units per 1.0
BasePrice == 100    \* the level the generated price series start from
MaxHistory == 2     \* finished refreshes remembered by the session spec
MaxCalls == 2       \* calls of update_chart waiting at the same time

(***************************************************************************)
(* Values                                                                  *)
(***************************************************************************)
\* the checklist's value as update_chart receives it: a list of option
\* values (their order and repetitions do not matter to 'in'), or None
PyList(items) == [py |-> "list", items |-> items]
PyNone == [py |-> "None", items |-> {}]
\* a JSON cell of a kline row: a number (or numeric string), a string that is
\* no number, or null
Num(v) == [k |-> "num", v |-> v]
Text == [k |-> "text", v |-> 0]
None == [k |-> "null", v |-> 0]
\* a float cell of the frame: a value or NaN
Val(v) == [d |-> TRUE, v |-> v]
NaN == [d |-> FALSE, v |-> 0]

Range(s) == {s[i] : i \in 1..Len(s)}
\* the same sequence, the same record: TLC then holds its elements instead
\* of the expression that yields them
List(s) == s \o <<>>
Row(f) == f @@ <<>>

(***************************************************************************)
(* The exchange: what one GET of the klines endpoint may answer            *)
(***************************************************************************)
\* A response is described by its kind and, for a JSON array of klines, by
\* the number of rows and the shape of the times, the prices and the rows.
Response(kind, n, prices, times, defect) ==
    [kind |-> kind, n |-> n, prices |-> prices, times |-> times,
     defect |-> defect]

\* open time, in ms since the epoch, of the i-th of n rows
OpenTime(r, i) ==
    CASE r.times = "ascending" -> i * 60000
      [] r.times = "descending" -> (r.n + 1 - i) * 60000
      [] r.times = "duplicate" -> (IF i = r.n /\ i > 1 THEN i - 1 ELSE i) * 60000

\* close price of the i-th of n rows
ClosePrice(r, i) ==
    CASE r.prices = "rising" -> BasePrice + i
      [] r.prices = "falling" -> BasePrice + (r.n - i)
      [] r.prices = "flat" -> BasePrice
      [] r.prices = "choppy" -> BasePrice + (i % 2)
      [] r.prices = "dip" -> IF i = 1 THEN BasePrice + 1 ELSE BasePrice
      [] r.prices = "rebound" ->
            IF i = 1 THEN BasePrice + 2
            ELSE IF i <= r.n - AdxWindow THEN BasePrice
            ELSE BasePrice + (i - (r.n - AdxWindow))
      [] r.prices = "swing" ->
            IF i = 1 THEN BasePrice
            ELSE IF i = 2 THEN BasePrice + 6 ELSE BasePrice - 7

\* the 12-element array the exchange documents for one kline
Kline(r, i) ==
    LET c == ClosePrice(r, i)
    IN  <<Num(OpenTime(r, i)), Num(c), Num(c + 1), Num(c - 1), Num(c), Num(1),
          Num(OpenTime(r, i) + 59999), Num(c), Num(1), Num(1), Num(c), Num(0)>>

\* the i-th element of the JSON array, with the response's defect applied
PayloadRow(r, i) ==
    LET row == Kline(r, i)
        last == (i = r.n)
    IN  CASE r.defect = "short_5" /\ last -> SubSeq(row, 1, 5)
          [] r.defect = "short_4" /\ last -> SubSeq(row, 1, 4)
          [] r.defect = "long_13" /\ last -> Append(row, Num(0))
          [] r.defect = "text_time" /\ last -> [row EXCEPT ![1] = Text]
          [] r.defect = "text_open" /\ last -> [row EXCEPT ![2] = Text]
          [] r.defect = "text_close" /\ last -> [row EXCEPT ![5] = Text]
          [] r.defect = "all_11" -> SubSeq(row, 1, 11)
          [] OTHER -> row

\* response.json() of a JSON array
Payload(r) == List([i \in 1..r.n |-> PayloadRow(r, i)])

\* the least number of rows ta's ADXIndicator(window).adx() accepts: it
\* allocates len - (window - 1) slots and writes slot number window
AdxMinRows == 2 * AdxWindow

Failures ==
    {Response(k, 0, "flat", "ascending", "none") :
        k \in {"network_error", "http_error", "object"}}
ShortHistories ==
    {Response("list", n, "rising", "ascending", "none") :
        n \in 0..(AdxMinRows - 1)}
FullHistories ==
    {Response("list", AdxMinRows, p, "ascending", "none") :
        p \in {"rising", "falling", "flat", "choppy", "dip", "rebound",
              "swing"}}
    \cup {Response("list", n, "choppy", "ascending", "none") :
            n \in {AdxMinRows + 1, RequestLimit, RequestLimit + Excess}}
    \cup {Response("list", RequestLimit, p, "ascending", "none") :
            p \in {"dip", "rebound"}}
Disordered ==
    {Response("list", AdxMinRows, "rising", t, "none") :
        t \in {"descending", "duplicate"}}
Malformed ==
    {Response("list", AdxMinRows, "rising", "ascending", d) :
        d \in {"short_5", "short_4", "long_13", "text_time", "text_open",
               "text_close", "all_11"}}
Responses ==
    Failures \cup ShortHistories \cup FullHistories \cup Disordered
        \cup Malformed

(***************************************************************************)
(* pandas: frames                                                          *)
(***************************************************************************)
\* A frame is its column labels and its rows; a row maps the labels of the
\* columns whose values the model computes to their cells.
Frame(columns, rows) == [columns |-> columns, rows |-> rows]
\* pd.DataFrame()
NoFrame == Frame(<<>>, <<>>)
\* df.empty
IsEmpty(f) == Len(f.columns) = 0 \/ Len(f.rows) = 0

\* lib.to_object_array: the rows of a list of lists, each padded with None
\* to the length of the longest
Width(data) ==
    IF Len(data) = 0 THEN 0
    ELSE CHOOSE k \in {Len(data[i]) : i \in 1..Len(data)} :
             \A i \in 1..Len(data) : Len(data[i]) <= k
to_object_array(data) ==
    LET k == Width(data)
    IN  List([i \in 1..Len(data) |->
            List([j \in 1..k |->
                    IF j <= Len(data[i]) THEN data[i][j] ELSE None])])

ColumnIndex(columns, c) == CHOOSE j \in 1..Len(columns) : columns[j] = c

\* pd.DataFrame(data, columns=columns) raises unless the padded rows are as
\* wide as the column list (an empty list builds an empty frame)
DataFrameRaises(data, columns) ==
    Len(data) > 0 /\ Width(data) # Len(columns)
\* variant: the frame cut to the first RequestLimit rows
DataFrameHead(data, columns) ==
    LET arr == to_object_array(data)
        kept == IF Len(data) <= RequestLimit THEN Len(data) ELSE RequestLimit
    IN  Frame(columns,
              List([i \in 1..kept |->
                  Row([c \in Range(columns) |->
                          arr[i][ColumnIndex(columns, c)]])]))
\* pd.DataFrame(data, columns=columns): one row per element of data
DataFrame(data, columns) ==
    LET arr == to_object_array(data)
    IN  Frame(columns,
              List([i \in 1..Len(data) |->
                  Row([c \in Range(columns) |->
                          arr[i][ColumnIndex(columns, c)]])]))

\* df[[...]]
SelectColumns(f, columns) ==
    Frame(columns,
          List([i \in 1..Len(f.rows) |->
                  Row([c \in Range(columns) |-> f.rows[i][c]])]))

\* pd.to_datetime(x, unit='ms') then tz_localize('UTC').tz_convert(...): the
\* instant is kept, null becomes NaT, a string that is no number raises
to_datetime(cell) == IF cell.k = "num" THEN Val(cell.v) ELSE NaN
\* astype(float): a number or numeric string parses, None becomes NaN, any
\* other string raises
astype_float(cell) == IF cell.k = "num" THEN Val(cell.v) ELSE NaN

TypedRow(row) ==
    [time |-> to_datetime(row.time), open |-> astype_float(row.open),
     high |-> astype_float(row.high), low |-> astype_float(row.low),
     close |-> astype_float(row.close)]

(***************************************************************************)
(* Naturals of any size: little-endian sequences of limbs below Limb,      *)
(* without leading zeros (zero is the empty sequence)                      *)
(***************************************************************************)
Limb == 2 ^ LimbBits

RECURSIVE Trim(_)
\* a without its leading zero limbs
Trim(a) ==
    IF Len(a) > 0 /\ a[Len(a)] = 0 THEN Trim(SubSeq(a, 1, Len(a) - 1)) ELSE a

RECURSIVE BigOf(_)
\* the natural k
BigOf(k) == IF k = 0 THEN <<>> ELSE <<k % Limb>> \o BigOf(k \div Limb)

RECURSIVE IntOf(_)
\* the integer a
IntOf(a) == IF a = <<>> THEN 0 ELSE a[1] + Limb * IntOf(Tail(a))

RECURSIVE MulFrom(_, _, _, _)
\* the limbs of a's limbs i.. times k, plus carry
MulFrom(a, k, i, carry) ==
    IF i > Len(a)
    THEN IF carry = 0 THEN <<>>
         ELSE <<carry % Limb>> \o MulFrom(a, k, i, carry \div Limb)
    ELSE LET t == a[i] * k + carry
         IN  <<t % Limb>> \o MulFrom(a, k, i + 1, t \div Limb)
\* a * k for 0 <= k <= Limb
BigMul(a, k) == IF k = 0 THEN <<>> ELSE MulFrom(a, k, 1, 0)

RECURSIVE AddFrom(_, _, _, _)
AddFrom(a, b, i, carry) ==
    IF i > Len(a) /\ i > Len(b)
    THEN IF carry = 0 THEN <<>> ELSE <<carry>>
    ELSE LET t == (IF i <= Len(a) THEN a[i] ELSE 0)
                    + (IF i <= Len(b) THEN b[i] ELSE 0) + carry
         IN  <<t % Limb>> \o AddFrom(a, b, i + 1, t \div Limb)
\* a + b
BigAdd(a, b) == AddFrom(a, b, 1, 0)

RECURSIVE SubFrom(_, _, _, _)
SubFrom(a, b, i, borrow) ==
    IF i > Len(a) THEN <<>>
    ELSE LET t == a[i] - (IF i <= Len(b) THEN b[i] ELSE 0) - borrow
         IN  IF t < 0 THEN <<t + Limb>> \o SubFrom(a, b, i + 1, 1)
             ELSE <<t>> \o SubFrom(a, b, i + 1, 0)
\* a - b for a >= b
BigSub(a, b) == Trim(SubFrom(a, b, 1, 0))

RECURSIVE LeqFrom(_, _, _)
LeqFrom(a, b, i) ==
    IF i = 0 THEN TRUE
    ELSE IF a[i] # b[i] THEN a[i] < b[i]
    ELSE LeqFrom(a, b, i - 1)
\* a <= b
BigLeq(a, b) ==
    IF Len(a) # Len(b) THEN Len(a) < Len(b) ELSE LeqFrom(a, b, Len(a))

\* a * Limb
Up(a) == IF a = <<>> THEN <<>> ELSE <<0>> \o a
RECURSIVE TimesFrom(_, _, _)
TimesFrom(a, b, j) ==
    IF j > Len(b) THEN <<>>
    ELSE BigAdd(BigMul(a, b[j]), Up(TimesFrom(a, b, j + 1)))
\* a * b
BigTimes(a, b) == TimesFrom(a, b, 1)

RECURSIVE Bits(_)
\* the number of binary digits of x
Bits(x) == IF x = 0 THEN 0 ELSE 1 + Bits(x \div 2)
BitLen(a) ==
    IF a = <<>> THEN 0 ELSE (Len(a) - 1) * LimbBits + Bits(a[Len(a)])

\* a * 2^k
ShiftLeft(a, k) ==
    IF a = <<>> THEN <<>>
    ELSE List([i \in 1..(k \div LimbBits) |-> 0])
            \o BigMul(a, 2 ^ (k % LimbBits))
\* a \div 2^k
ShiftRight(a, k) ==
    LET q == k \div LimbBits
        low == 2 ^ (k % LimbBits)
        high == 2 ^ (LimbBits - (k % LimbBits))
        limb(i) == IF i <= Len(a) THEN a[i] ELSE 0
    IN  IF q >= Len(a) THEN <<>>
        ELSE Trim(List([i \in 1..(Len(a) - q) |->
                         limb(i + q) \div low + (limb(i + q + 1) % low) * high]))
\* a % 2^k # 0
Lost(a, k) ==
    \E i \in 1..Len(a) :
        \/ i <= k \div LimbBits /\ a[i] # 0
        \/ i = (k \div LimbBits) + 1 /\ a[i] % (2 ^ (k % LimbBits)) # 0

RECURSIVE DivDigit(_, _, _, _)
\* k more binary digits, after those of q, of r / d for r < d; what is left
DivDigit(r, d, k, q) ==
    IF k = 0 THEN [q |-> q, r |-> r]
    ELSE LET twice == BigAdd(r, r)
         IN  IF BigLeq(d, twice)
             THEN DivDigit(BigSub(twice, d), d, k - 1, 2 * q + 1)
             ELSE DivDigit(twice, d, k - 1, 2 * q)

RECURSIVE DivLimbs(_, _, _, _)
\* k more limbs, below those of q, of r / d for r < d; what is left
DivLimbs(r, d, k, q) ==
    IF k = 0 THEN [q |-> q, r |-> r]
    ELSE LET digit == DivDigit(r, d, LimbBits, 0)
         IN  DivLimbs(digit.r, d, k - 1, <<digit.q>> \o q)

(***************************************************************************)
(* float64: the non-negative doubles m * 2^e with a mantissa m of          *)
(* Precision binary digits (0.0 has the mantissa zero), and their          *)
(* arithmetic, rounded to nearest, ties to even.  The exponents of the     *)
(* values at hand stay far inside the range of the format.                 *)
(***************************************************************************)
Float(m, e) == [m |-> m, e |-> e]
Zero == Float(<<>>, 0)

\* q or, where q has a digit too many, q without its last digit (a zero)
Carried(q, e) ==
    IF BitLen(q) > Precision THEN Float(ShiftRight(q, 1), e + 1)
    ELSE Float(q, e)
\* t holds one digit more than the mantissa q; rest says that the exact
\* value has digits below those of t
Rounded(t, q, rest, e) ==
    IF t[1] % 2 = 1 /\ (rest \/ q[1] % 2 = 1)
    THEN Carried(BigAdd(q, <<1>>), e)
    ELSE Float(q, e)
Halved(t, rest, e) == Rounded(t, ShiftRight(t, 1), rest, e)
Sized(n, len, e, rest) ==
    IF len <= Precision
    THEN Float(ShiftLeft(n, Precision - len), e - (Precision - len))
    ELSE Halved(ShiftRight(n, len - (Precision + 1)),
                rest \/ Lost(n, len - (Precision + 1)), e + (len - Precision))
\* the double nearest to x * 2^e, where n is the whole part of x >= 0 and
\* rest says that x has a fractional part (n then has more than Precision
\* digits)
Nearest(n, e, rest) ==
    IF n = <<>> THEN Zero ELSE Sized(n, BitLen(n), e, rest)

\* float(k) for a natural k
FromInt(k) == Nearest(BigOf(k), 0, FALSE)
One == FromInt(1)

\* a * b
FMul(a, b) ==
    IF a.m = <<>> \/ b.m = <<>> THEN Zero
    ELSE Nearest(BigTimes(a.m, b.m), a.e + b.e, FALSE)
\* a + b
FAdd(a, b) ==
    IF a.m = <<>> THEN b
    ELSE IF b.m = <<>> THEN a
    ELSE IF a.e >= b.e
    THEN Nearest(BigAdd(ShiftLeft(a.m, a.e - b.e), b.m), b.e, FALSE)
    ELSE Nearest(BigAdd(a.m, ShiftLeft(b.m, b.e - a.e)), a.e, FALSE)
\* a - b for a >= b
FSub(a, b) ==
    IF b.m = <<>> THEN a
    ELSE Nearest(BigSub(ShiftLeft(a.m, a.e - b.e), b.m), b.e, FALSE)

\* the digits a division works out: enough for the mantissa and the digit
\* after it
QuotLimbs == (Precision + LimbBits) \div LimbBits
Quot(lead, frac, e) ==
    Nearest(IF lead THEN frac.q \o <<1>> ELSE Trim(frac.q), e, frac.r # <<>>)
Ratio(ma, mb, lead, e) ==
    Quot(lead, DivLimbs(IF lead THEN BigSub(ma, mb) ELSE ma, mb, QuotLimbs, <<>>),
         e)
\* a / b for b > 0; the division by a power of two only moves the exponent
FDiv(a, b) ==
    IF a.m = <<>> THEN Zero
    ELSE IF b.m = One.m THEN Float(a.m, a.e - b.e - (Precision - 1))
    ELSE Ratio(a.m, b.m, BigLeq(b.m, a.m), a.e - b.e - QuotLimbs * LimbBits)

\* a derived float cell on Scale units: v is the value cut to a whole number
\* of units, rest says that the value lies above v
Cut(v, rest) == [d |-> TRUE, v |-> v, rest |-> rest]
CutOf(n, e) ==
    IF e >= 0 THEN Cut(IntOf(ShiftLeft(n, e)), FALSE)
    ELSE Cut(IntOf(ShiftRight(n, -e)), Lost(n, -e))
\* the cell of the double f
Cell(f) == CutOf(BigMul(f.m, Scale), f.e)

(***************************************************************************)
(* Indicators                                                              *)
(***************************************************************************)
\* The recursions over the rows of a frame halve the rows, and ask the left
\* half for its length before they enter the right half: the evaluation then
\* nests only log-deep.

RECURSIVE PrefixSums(_, _, _, _)
\* acc followed by the sums xs[1] + ... + xs[i] for i in lo..hi; acc starts
\* as <<0>>, so that acc[i + 1] is the sum of the first i
PrefixSums(xs, lo, hi, acc) ==
    IF lo > hi THEN acc
    ELSE IF lo = hi THEN Append(acc, acc[lo] + xs[lo])
    ELSE LET mid == (lo + hi) \div 2
             left == PrefixSums(xs, lo, mid, acc)
         IN  IF Len(left) = mid + 1 THEN PrefixSums(xs, mid + 1, hi, left)
             ELSE left

\* the mean of the window that ends at row i: the sum of its prices (whole
\* numbers, which the doubles add and subtract without error) by their count
WindowMean(sums, i, window) ==
    FDiv(FromInt(sums[i + 1] - sums[i + 1 - window]), FromInt(window))
MeanCells(sums, n, window) ==
    List([i \in 1..n |->
            IF i < window THEN NaN ELSE Cell(WindowMean(sums, i, window))])
\* Series.rolling(window).mean(): undefined until the window is full
RollingMean(xs, window) ==
    MeanCells(PrefixSums(xs, 1, Len(xs), <<0>>), Len(xs), window)

\* pandas' get_center_of_mass: comass = (span - 1) / 2, or (1 - alpha) / alpha
ComOfSpan(span) == FDiv(FromInt(span - 1), FromInt(2))
ComOfAlpha(alpha) == FDiv(FSub(One, alpha), alpha)

\* pandas' ewm (window/aggregations.pyx) with adjust=False: alpha =
\* 1 / (1 + com), old_wt_factor = 1 - alpha, new_wt = alpha; old_wt is 1
\* before each row and is multiplied by old_wt_factor
Weights(alpha) == Row([old |-> FMul(One, FSub(One, alpha)), new |-> alpha])
EwmWeights(com) == Weights(FDiv(One, FAdd(One, com)))
\* one row: a value equal to the mean leaves it as it is; any other gives
\* (old_wt * weighted + new_wt * cur) / (old_wt + new_wt)
EwmRow(weighted, cur, w) ==
    IF weighted = cur THEN weighted
    ELSE FDiv(FAdd(FMul(w.old, weighted), FMul(w.new, cur)),
              FAdd(w.old, w.new))

RECURSIVE EwmMean(_, _, _, _, _)
\* acc followed by the means of the rows lo..hi of xs, where acc holds the
\* means of the rows before; the first mean is the first value
EwmMean(xs, w, lo, hi, acc) ==
    IF lo > hi THEN acc
    ELSE IF lo = hi
    THEN Append(acc, IF lo = 1 THEN xs[1] ELSE EwmRow(acc[lo - 1], xs[lo], w))
    ELSE LET mid == (lo + hi) \div 2
             left == EwmMean(xs, w, lo, mid, acc)
         IN  IF Len(left) = mid THEN EwmMean(xs, w, mid + 1, hi, left)
             ELSE left

\* the series of whole numbers xs as doubles
Floats(xs) == List([i \in 1..Len(xs) |-> FromInt(xs[i])])
\* Series.ewm(com=com, adjust=False).mean()
Ewm(xs, w) == EwmMean(Floats(xs), w, 1, Len(xs), <<>>)
Cells(ys) == List([i \in 1..Len(ys) |-> Cell(ys[i])])

\* Series.ewm(span=span, adjust=False).mean(): defined on every row
EwmSpan(xs, span) == Cells(Ewm(xs, EwmWeights(ComOfSpan(span))))

\* np.where(emadn == 0, 100, 100 - (100 / (1 + emaup / emadn)))
Hundred == FromInt(100)
RsiValue(emaup, emadn) ==
    IF emadn = Zero THEN Hundred
    ELSE FSub(Hundred, FDiv(Hundred, FAdd(One, FDiv(emaup, emadn))))

\* the rsi column from the smoothed gains and losses: undefined on the rows
\* before min_periods = window
RsiColumn(emaup, emadn, window) ==
    List([i \in 1..Len(emaup) |->
            IF i < window THEN NaN ELSE Cell(RsiValue(emaup[i], emadn[i]))])

\* diff.where(diff > 0, 0.0) and -diff.where(diff < 0, 0.0) of close.diff(1);
\* the differences of whole prices are whole
Gains(xs) ==
    List([i \in 1..Len(xs) |->
            IF i > 1 /\ xs[i] > xs[i - 1] THEN xs[i] - xs[i - 1] ELSE 0])
Losses(xs) ==
    List([i \in 1..Len(xs) |->
            IF i > 1 /\ xs[i] < xs[i - 1] THEN xs[i - 1] - xs[i] ELSE 0])

\* the smoothed means of the gains and of the losses, given the weights
Smoothed(up, dn, window, w) == RsiColumn(Ewm(up, w), Ewm(dn, w), window)

\* ta.momentum.RSIIndicator(close, window).rsi(): the gains and the losses,
\* each smoothed by ewm(alpha = 1 / window, min_periods = window,
\* adjust=False).mean()
RSIIndicator(xs, window) ==
    Smoothed(Gains(xs), Losses(xs), window,
             EwmWeights(ComOfAlpha(FDiv(One, FromInt(window)))))

\* series < k and series > k: False where the series is NaN
LessThan(cell, k) == cell.d /\ cell.v < k * Scale
GreaterThan(cell, k) ==
    cell.d /\ (cell.v > k * Scale \/ (cell.v = k * Scale /\ cell.rest))

\* variant: the comparison turned around
compraAbove(rsi) == GreaterThan(rsi, RsiBuyBelow)
\* line 78: df["compra"] = df["rsi"] < 30
compra(rsi) == LessThan(rsi, RsiBuyBelow)
\* line 79: df["venda"] = df["rsi"] > 70
venda(rsi) == GreaterThan(rsi, RsiSellAbove)

\* a row with its indicator cells.  The cells of macd, cci, adx, the
\* Bollinger bands and previsao are not computed here: no branch of the
\* program reads them.
IndicatorRow(row, sma, ema, rsi) ==
    [time |-> row.time, open |-> row.open, high |-> row.high,
     low |-> row.low, close |-> row.close,
     sma_20 |-> sma, ema_20 |-> ema, rsi |-> rsi,
     compra |-> compra(rsi), venda |-> venda(rsi)]

IndicatorRows(rows, sma, ema, rsi) ==
    List([i \in 1..Len(rows) |->
            IndicatorRow(rows[i], sma[i], ema[i], rsi[i])])

Closes(rows) == List([i \in 1..Len(rows) |-> rows[i].close.v])

IndicatorColumnsOf(rows, close) ==
    IndicatorRows(rows, RollingMean(close, SmaWindow),
                  EwmSpan(close, EmaSpan), RSIIndicator(close, RsiWindow))

\* lines 66-85: the frame with its indicator columns
AddIndicators(f) ==
    Frame(f.columns \o IndicatorColumns,
          IndicatorColumnsOf(f.rows, Closes(f.rows)))

(***************************************************************************)
(* fetch_data                                                              *)
(***************************************************************************)
Raise(e) == [exc |-> e, df |-> NoFrame]
Return(f) == [exc |-> "", df |-> f]

\* lines 45-47: requests.get(API_URL, params=params)
Get(interval) ==
    [url |-> API_URL,
     params |-> [symbol |-> SYMBOL, interval |-> interval,
                 limit |-> RequestLimit]]

\* variant: one retry after a transport failure
HttpGetsRetry(interval, r) ==
    IF r.kind \in {"network_error", "http_error"}
    THEN <<Get(interval), Get(interval)>>
    ELSE <<Get(interval)>>
\* the GETs one call of fetch_data issues when the exchange answers r: one,
\* whatever the answer
HttpGets(interval, r) == <<Get(interval)>>

\* ta.trend.ADXIndicator(high, low, close, window).adx() on n rows: fewer
\* than window - 1 rows ask numpy for an array of negative length, fewer than
\* 2 * window write past the end of the array
AdxRaises(n) == n < AdxMinRows
AdxException(n) == IF n < AdxWindow - 1 THEN "ValueError" ELSE "IndexError"
\* LinearRegression().fit(X, y) refuses a y with NaN
FitRaises(f) == \E i \in 1..Len(f.rows) : ~f.rows[i].close.d

\* lines 55-87: from the parsed JSON list to the returned frame
ShapeFrame(data) ==
    IF DataFrameRaises(data, KlineColumns) THEN Raise("ValueError")
    ELSE
      LET raw == SelectColumns(DataFrame(data, KlineColumns), KeptColumns)
          rows == raw.rows
      IN  IF \E i \in 1..Len(rows) : rows[i].time.k = "text"
          THEN Raise("ValueError")
          ELSE IF \E i \in 1..Len(rows) :
                    \E c \in {"open", "high", "low", "close"} :
                        rows[i][c].k = "text"
          THEN Raise("ValueError")
          ELSE
            LET typed == Frame(KeptColumns,
                               List([i \in 1..Len(rows) |->
                                        TypedRow(rows[i])]))
            IN  IF IsEmpty(typed) THEN Return(typed)
                ELSE IF AdxRaises(Len(rows))
                THEN Raise(AdxException(Len(rows)))
                ELSE IF FitRaises(typed) THEN Raise("ValueError")
                ELSE Return(AddIndicators(typed))

\* ShapeFrame of the lists the exchange of this model answers, worked out
\* once for all the calls that get them
Shaped ==
    Row([r \in {x \in Responses : x.kind = "list"} |->
            ShapeFrame(Payload(r))])

\* the entry of the table for r, or else the value worked out
Tabulated(table, r, value) == IF r \in DOMAIN table THEN table[r] ELSE value

\* lines 43-87: the body of the try block
FetchBody(interval, r) ==
    CASE r.kind = "network_error" -> Raise("ConnectionError")
      [] r.kind = "http_error" -> Raise("HTTPError")
      [] r.kind = "object" -> Return(NoFrame)
      [] r.kind = "list" -> Tabulated(Shaped, r, ShapeFrame(Payload(r)))

\* lines 42-90: except Exception returns pd.DataFrame()
Caught(out) == IF out.exc # "" THEN NoFrame ELSE out.df
fetch_data(interval, r) == Caught(FetchBody(interval, r))

(***************************************************************************)
(* update_chart                                                            *)
(***************************************************************************)
Figure(traces, layout) == [traces |-> traces, layout |-> layout]
\* a trace names the frame columns it plots
Candlestick ==
    [type |-> "candlestick", name |-> "", x |-> "time",
     y |-> <<"open", "high", "low", "close">>]
Scatter(name, column, color) ==
    [type |-> "scatter", name |-> name, x |-> "time", y |-> <<column>>,
     mode |-> "lines", color |-> color]

Returned(fig, message) ==
    [status |-> "returned", figure |-> fig, message |-> message]
Raised(e) == [status |-> "raised", exception |-> e]

\* variant: the prediction trace in an elif of the indicators test
TracesElif(toggles) ==
    (IF "candlestick" \in toggles.items THEN <<Candlestick>> ELSE <<>>)
    \o (IF "indicators" \in toggles.items
        THEN <<Scatter("SMA 20", "sma_20", "blue"),
               Scatter("EMA 20", "ema_20", "orange")>>
        ELSE IF "prediction" \in toggles.items
        THEN <<Scatter("Previsao", "previsao", "white")>>
        ELSE <<>>)
\* lines 137-143: the traces added for the selected options, in order
Traces(toggles) ==
    (IF "candlestick" \in toggles.items THEN <<Candlestick>> ELSE <<>>)
    \o (IF "indicators" \in toggles.items
        THEN <<Scatter("SMA 20", "sma_20", "blue"),
               Scatter("EMA 20", "ema_20", "orange")>>
        ELSE <<>>)
    \o (IF "prediction" \in toggles.items
        THEN <<Scatter("Previsao", "previsao", "white")>>
        ELSE <<>>)

\* variant: the emptiness test looks at the columns only
RenderUnlessNoColumns(n, frame, toggles) ==
    IF Len(frame.columns) = 0
    THEN Returned(Figure(<<>>, [title |-> ErrorTitle]), ErrorMessage)
    ELSE IF toggles.py # "list"
    THEN Raised("TypeError")
    ELSE Returned(Figure(Traces(toggles),
                         [title |-> ChartTitle, template |-> "plotly_dark"]),
                  "")
\* variant: the timer count n goes into the figure's layout
RenderCounting(n, frame, toggles) ==
    IF IsEmpty(frame)
    THEN Returned(Figure(<<>>, [title |-> ErrorTitle, uirevision |-> n]),
                  ErrorMessage)
    ELSE IF toggles.py # "list"
    THEN Raised("TypeError")
    ELSE Returned(Figure(Traces(toggles),
                         [title |-> ChartTitle, template |-> "plotly_dark",
                          uirevision |-> n]),
                  "")
\* lines 132-146: what update_chart does with the frame fetch_data returned
Render(n, frame, toggles) ==
    IF IsEmpty(frame)
    THEN Returned(Figure(<<>>, [title |-> ErrorTitle]), ErrorMessage)
    ELSE IF toggles.py # "list"
    THEN Raised("TypeError")     \* 'candlestick' in None
    ELSE Returned(Figure(Traces(toggles),
                         [title |-> ChartTitle, template |-> "plotly_dark"]),
                  "")

\* lines 128-146: the frame update_chart fetched (its local df) and what it
\* handed back
Rendered(n, frame, toggles) ==
    [df |-> frame, out |-> Render(n, frame, toggles)]
update_chart(n, interval, toggles, r) ==
    Rendered(n, fetch_data(interval, r), toggles)

(***************************************************************************)
(* The host: Dash calls update_chart when one of its three inputs changes. *)
(* The server answers each callback request on a thread of its own, and    *)
(* update_chart blocks in requests.get until the exchange answers: calls   *)
(* overlap, and the page's timer and inputs go on firing while they wait.  *)
(***************************************************************************)
\* the interval codes the user switches between
Selectable ==
    {DEFAULT_INTERVAL} \cup {INTERVAL_OPTIONS[i] : i \in 1..MaxChoices}

\* a call of update_chart blocked in requests.get: its arguments and the GET
\* it has sent
Waiting(n, interval, toggles) ==
    [n |-> n, selected_interval |-> interval, toggle_options |-> toggles,
     requests |-> <<Get(interval)>>]

NoCall ==
    [n |-> -1, selected_interval |-> "", toggle_options |-> PyNone,
     requests |-> <<>>]
NoResponse == [kind |-> "none"]
NoResult == [status |-> "none"]

\* What the session specification remembers of the refreshes so far: one
\* input of update_chart chosen at the start (the probe), how often it has
\* been refreshed, every result it got, and the outcome of the call that
\* returned before the last one.
Input(interval, toggles, r) ==
    [selected_interval |-> interval, toggle_options |-> toggles,
     upstream |-> r]
NoHistory ==
    [probe |-> Input("", PyNone, NoResponse), hits |-> 0, results |-> {},
     before |-> ""]
Outcome(out) ==
    CASE out.status = "raised" -> "raised"
      [] out.status = "returned" /\ out.message # "" -> "error"
      [] OTHER -> "chart"

\* the page is loaded: Dash calls the callback with the layout's values, and
\* the call sends its GET
InitWith(h) ==
    /\ selected_interval = DEFAULT_INTERVAL
    /\ toggle_options = PyList(DefaultToggleValues)
    /\ n_intervals = 0
    /\ calls = SetToBag({Waiting(0, DEFAULT_INTERVAL,
                                 PyList(DefaultToggleValues))})
    /\ call = NoCall
    /\ upstream = NoResponse
    /\ requests = <<>>
    /\ df = NoFrame
    /\ result = NoResult
    /\ history = h

Init == InitWith(NoHistory)

\* lines 128-130, 44-47: Dash calls update_chart with the values of the
\* page; the call runs up to requests.get, sends the GET and waits
Call(n, interval, toggles) ==
    /\ BagCardinality(calls) < MaxCalls
    /\ calls' = calls (+) SetToBag({Waiting(n, interval, toggles)})
    /\ UNCHANGED <<call, upstream, requests, df, result, history>>

\* line 118: the timer fires
Tick ==
    /\ n_intervals < MaxTicks
    /\ n_intervals' = n_intervals + 1
    /\ Call(n_intervals + 1, selected_interval, toggle_options)
    /\ UNCHANGED <<selected_interval, toggle_options>>

\* lines 98-103: the user picks another interval
SelectInterval ==
    /\ \E i \in Selectable \ {selected_interval} :
          /\ selected_interval' = i
          /\ Call(n_intervals, i, toggle_options)
    /\ UNCHANGED <<toggle_options, n_intervals>>

\* lines 105-115: the user checks or unchecks one of the options
Flip(options) ==
    /\ \E o \in options :
          LET t == IF o \in toggle_options.items
                   THEN PyList(toggle_options.items \ {o})
                   ELSE PyList(toggle_options.items \cup {o})
          IN  /\ toggle_options' = t
              /\ Call(n_intervals, selected_interval, t)
    /\ UNCHANGED <<selected_interval, n_intervals>>

\* lines 121-127: a callback request whose 'toggle-options' value is null;
\* Dash passes the posted values to update_chart as they are
Request ==
    /\ Call(n_intervals, selected_interval, PyNone)
    /\ UNCHANGED <<selected_interval, toggle_options, n_intervals>>

\* the call's frame and what it hands back
Returns(done) == df' = done.df /\ result' = done.out

\* lines 47-90, 132-146: the exchange answers r to the GET of the waiting
\* call c; the call shapes the frame, builds the figure and returns
Answer(c, r) ==
    /\ BagIn(c, calls)
    /\ calls' = calls (-) SetToBag({c})
    /\ call' = c
    /\ upstream' = r
    /\ requests' = HttpGets(c.selected_interval, r)
    /\ Returns(update_chart(c.n, c.selected_interval, c.toggle_options, r))
    /\ UNCHANGED <<selected_interval, toggle_options, n_intervals>>

\* the answers the exchange gives where the page is what varies: a failed
\* request, an empty list, a history long enough for every indicator
Answers ==
    {Response("http_error", 0, "flat", "ascending", "none"),
     Response("list", 0, "rising", "ascending", "none"),
     Response("list", AdxMinRows, "rising", "ascending", "none")}
\* the options the user flips where the whole page is followed
FlippedValues == {"candlestick", "signals"}

AnswerFrom(answers) ==
    \E c \in BagToSet(calls) : \E r \in answers : Answer(c, r)

\* the whole page: timer, dropdown, two of the checklist's options, posted
\* requests, and the calls returning
Toggle == Flip(FlippedValues)
UpdateChart == AnswerFrom(Answers) /\ UNCHANGED history
Next == Tick \/ SelectInterval \/ Toggle \/ Request \/ UpdateChart
Spec == Init /\ [][Next]_vars

\* the checklist: every option flipped, and posted requests
LayerToggle == Flip(ToggleValues)
LayerNext == LayerToggle \/ Request \/ UpdateChart
LayerSpec == Init /\ [][LayerNext]_vars

\* the feed: the page refreshed by its timer, against every answer of the
\* exchange
FeedUpdateChart == AnswerFrom(Responses) /\ UNCHANGED history
FeedNext == Tick \/ SelectInterval \/ FeedUpdateChart
FeedSpec == Init /\ [][FeedNext]_vars

(***************************************************************************)
(* Sessions: the whole page, with the refreshes of one input remembered so *)
(* that two refreshes of a behaviour can be compared                       *)
(***************************************************************************)
Probes ==
    {Input(DEFAULT_INTERVAL, PyList(DefaultToggleValues), r) : r \in Answers}

SessionInit == \E p \in Probes : InitWith([NoHistory EXCEPT !.probe = p])

Remember(h, input, out, earlier) ==
    [probe |-> h.probe,
     hits |-> IF input = h.probe /\ h.hits < MaxHistory
              THEN h.hits + 1 ELSE h.hits,
     results |-> IF input = h.probe THEN h.results \cup {out}
                 ELSE h.results,
     before |-> IF earlier = NoResult THEN "" ELSE Outcome(earlier)]

SessionUpdateChart ==
    \E c \in BagToSet(calls) : \E r \in Answers :
        /\ Answer(c, r)
        /\ history' = Remember(history,
                               Input(c.selected_interval,
                                     c.toggle_options, r),
                               result', result)

\* the option the user flips in a session
SessionFlippedValues == {"candlestick"}
SessionToggle == Flip(SessionFlippedValues)

SessionNext ==
    Tick \/ SelectInterval \/ SessionToggle \/ Request \/ SessionUpdateChart

SessionSpec == SessionInit /\ [][SessionNext]_vars

(***************************************************************************)
(* Claims                                                                  *)
(***************************************************************************)
Done == call # NoCall
Listed == call.toggle_options.py = "list"
Selected(o) == o \in call.toggle_options.items
Shown(name) ==
    \E k \in 1..Len(result.figure.traces) :
        result.figure.traces[k].name = name
Candles ==
    \E k \in 1..Len(result.figure.traces) :
        result.figure.traces[k].type = "candlestick"
SignalMarkers ==
    {k \in 1..Len(result.figure.traces) :
        /\ result.figure.traces[k].type = "scatter"
        /\ result.figure.traces[k].mode = "markers"}

TransportFailure(r) == r.kind \in {"network_error", "http_error"}
NotAList(r) == r.kind = "object"
\* some element of the JSON array is not a 12-element array
IrregularRows(r) ==
    /\ r.kind = "list"
    /\ \E i \in 1..r.n : Len(Payload(r)[i]) # Len(KlineColumns)
\* some row has an open, high, low or close that is no number
UnparseablePrice(r) ==
    /\ r.kind = "list"
    /\ \E i \in 1..r.n : \E j \in 2..5 :
          j <= Len(Payload(r)[i]) /\ Payload(r)[i][j].k = "text"
\* every row is a 12-element array with a numeric time and numeric prices
ValidRows(r) ==
    /\ r.kind = "list"
    /\ \A i \in 1..r.n :
          /\ Len(Payload(r)[i]) = Len(KlineColumns)
          /\ \A j \in 1..5 : Payload(r)[i][j].k = "num"
Increasing(ts) == \A i \in 1..(Len(ts) - 1) : ts[i] < ts[i + 1]

\* C1: every transport failure, non-list payload, list with a row that is
\* not a 12-element array, or row with an unparseable price yields an empty
\* frame, and a returned frame never lacks rows of the upstream list.
C1_AllOrNothing ==
    Done =>
        /\ (TransportFailure(upstream) \/ NotAList(upstream)
              \/ IrregularRows(upstream) \/ UnparseablePrice(upstream))
           => IsEmpty(df)
        /\ ~IsEmpty(df) => Len(df.rows) = upstream.n

\* C2: update_chart returns a non-empty error message exactly when the
\* fetched frame is empty (the answer [] included); then it returns, whatever
\* the toggle value, a figure without traces.
C2_ErrorIffEmpty ==
    Done =>
        /\ (result.status = "returned" /\ result.message # "") <=> IsEmpty(df)
        /\ IsEmpty(df) =>
              /\ result.status = "returned"
              /\ result.figure.traces = <<>>
        /\ (upstream.kind = "list" /\ upstream.n = 0) => IsEmpty(df)
C2_Witness ==
    /\ Done /\ upstream.kind = "list" /\ upstream.n = 0
    /\ Listed /\ Selected("candlestick")
    /\ result.status = "returned" /\ result.message = ErrorMessage

\* C3 as stated: a non-empty frame has at most 100 rows and strictly
\* increasing timestamps, whatever rows the upstream sent.
C3_Original ==
    (Done /\ ~IsEmpty(df)) =>
        /\ Len(df.rows) <= RequestLimit
        /\ Increasing([i \in 1..Len(df.rows) |-> df.rows[i].time.v])
\* C3 amended: a non-empty frame has one row per upstream row, in upstream
\* order and with the upstream open times; so it has at most 100 rows and
\* strictly increasing timestamps exactly when the upstream list has.
C3_Passthrough ==
    (Done /\ ~IsEmpty(df)) =>
        LET data == Payload(upstream)
            sent == [i \in 1..Len(data) |-> data[i][1].v]
            kept == [i \in 1..Len(df.rows) |-> df.rows[i].time.v]
        IN  /\ Len(df.rows) = Len(data)
            /\ \A i \in 1..Len(data) :
                  df.rows[i].time.d /\ kept[i] = sent[i]
            /\ (Len(df.rows) <= RequestLimit) <=> (Len(data) <= RequestLimit)
            /\ Increasing(kept) <=> Increasing(sent)
C3_Witness ==
    /\ Done /\ ~IsEmpty(df)
    /\ Len(df.rows) = RequestLimit
    /\ Increasing([i \in 1..Len(df.rows) |-> df.rows[i].time.v])

\* C4: no refresh ends with an exception handed to the host; a failure at
\* any stage ends in the placeholder figure and the error message.
C4_NothingPropagates == Done => result.status = "returned"

\* C5: with a non-empty frame the figure holds exactly one signal marker
\* when 'signals' is selected and none when it is not.
C5_SignalMarker ==
    (Done /\ ~IsEmpty(df) /\ Listed) =>
        Cardinality(SignalMarkers) = (IF Selected("signals") THEN 1 ELSE 0)

\* C6: a list of n valid rows, 1 <= n < 20, yields a frame of n rows and a
\* chart with an empty error message.
C6_ShortHistoryRenders ==
    (Done /\ ValidRows(upstream) /\ upstream.n >= 1
          /\ upstream.n < SmaWindow) =>
        /\ ~IsEmpty(df)
        /\ Len(df.rows) = upstream.n
        /\ Listed => (result.status = "returned" /\ result.message = "")

\* C7: in a non-empty frame compra is true exactly where rsi < 30 and venda
\* exactly where rsi > 70; never both, and neither where rsi is undefined.
C7_Flags ==
    (Done /\ ~IsEmpty(df)) =>
        \A i \in 1..Len(df.rows) :
            LET row == df.rows[i]
                above(k) == \/ row.rsi.v > k * Scale
                            \/ (row.rsi.v = k * Scale /\ row.rsi.rest)
            IN  /\ row.compra <=> (row.rsi.d /\ row.rsi.v < RsiBuyBelow * Scale)
                /\ row.venda <=> (row.rsi.d /\ above(RsiSellAbove))
                /\ ~(row.compra /\ row.venda)
                /\ ~row.rsi.d => (~row.compra /\ ~row.venda)
C7_Witness ==
    /\ Done /\ ~IsEmpty(df)
    /\ \E i \in 1..Len(df.rows) : ~df.rows[i].rsi.d /\ ~df.rows[i].compra
    /\ \E i \in 1..Len(df.rows) : df.rows[i].compra /\ ~df.rows[i].venda
    /\ \E i \in 1..Len(df.rows) : df.rows[i].venda /\ ~df.rows[i].compra
    /\ \E i \in 1..Len(df.rows) :
          df.rows[i].rsi.d /\ ~df.rows[i].compra /\ ~df.rows[i].venda

\* C8: in one session every refresh of the same interval, toggles and
\* upstream answer gets the same result, whatever ran before and whatever
\* the timer counts; and a refresh that fetches a non-empty frame right
\* after a failed one returns the chart with an empty message.
C8_Stateless ==
    /\ Cardinality(history.results) <= 1
    /\ (Done /\ history.before = "error" /\ ~IsEmpty(df) /\ Listed) =>
          /\ result.status = "returned"
          /\ result.message = ""
          /\ result.figure.traces = Traces(call.toggle_options)
C8_Witness ==
    /\ Done
    /\ history.hits >= 2
    /\ history.probe.upstream.kind = "list"
    /\ history.probe.upstream.n > 0
    /\ Input(call.selected_interval, call.toggle_options, upstream)
          = history.probe
    /\ call.n > 0
    /\ history.before = "error"
    /\ Outcome(result) = "chart"

\* C9: with a non-empty frame every subset of the options renders with an
\* empty message; the candlestick trace, the pair SMA 20 and EMA 20, and the
\* Previsao trace are each present exactly when their option is selected.
C9_Layers ==
    (Done /\ ~IsEmpty(df) /\ Listed) =>
        /\ result.status = "returned"
        /\ result.message = ""
        /\ Candles <=> Selected("candlestick")
        /\ Shown("SMA 20") <=> Selected("indicators")
        /\ Shown("EMA 20") <=> Selected("indicators")
        /\ Shown("Previsao") <=> Selected("prediction")
C9_Witness ==
    /\ Done /\ ~IsEmpty(df) /\ Listed
    /\ call.toggle_options.items = {"prediction", "signals"}
    /\ Shown("Previsao")
    /\ Len(result.figure.traces) = 1

\* C10: every call of update_chart sends exactly one GET, for BTCUSDT, the
\* interval the call was given (the one selected when its trigger fired) and
\* limit 100; it sends no second one whatever the answer, and a call the page
\* triggered (timer, dropdown, checklist) then returns one figure and message.
C10_OneGet ==
    /\ \A c \in BagToSet(calls) :
          c.requests = <<Get(c.selected_interval)>>
    /\ Done =>
          /\ Len(requests) = 1
          /\ requests[1].url = API_URL
          /\ requests[1].params =
                [symbol |-> SYMBOL, interval |-> call.selected_interval,
                 limit |-> RequestLimit]
          /\ requests = call.requests
    /\ (Done /\ Listed) => result.status = "returned"
C10_Witness ==
    /\ Done /\ Listed /\ call.n > 0
    /\ TransportFailure(upstream)
    /\ call.selected_interval # DEFAULT_INTERVAL
    /\ selected_interval # call.selected_interval
    /\ Len(requests) = 1
    /\ result.message = ErrorMessage
    /\ \E c \in BagToSet(calls) :
          c.selected_interval # call.selected_interval

====
